---- MODULE Spec2Model ----
(***************************************************************************)
(* Model of the schema and rights layer of rgb-core:                       *)
(*   src/src/contract/rights.rs  rights containers and their leaf records  *)
(*   src/src/schema/schema.rs    Schema, SchemaId, blank_transition        *)
(*   src/src/schema/script.rs    VmScript, OverrideRules, Action taxonomy  *)
(* The module holds four independent state machines over one set of        *)
(* variables: Spec (rights containers), SpecLeaves (leaf records),         *)
(* SpecSchema (schema construction and identity) and SpecScript (script    *)
(* and action dispatch).  A machine leaves the other machines' variables   *)
(* at their initial values.                                                *)
(***************************************************************************)
EXTENDS Integers, Sequences, FiniteSets, TLC

VARIABLES
    \* ---- rights containers (contract/rights.rs)
    owned,            \* OwnedRights.0        : BTreeMap<OwnedRightType, TypedAssignments>
    public,           \* PublicRights.0       : BTreeSet<PublicRightType>
    parentOwned,      \* ParentOwnedRights.0  : BTreeMap<NodeId, BTreeMap<OwnedRightType, Vec<u16>>>
    parentPublic,     \* ParentPublicRights.0 : BTreeMap<NodeId, BTreeSet<PublicRightType>>
    ownedLog,         \* the insertions that built owned, in the order made
    publicLog,        \* the insertions that built public
    parentOwnedLog,   \* the insertions that built parentOwned
    parentPublicLog,  \* the insertions that built parentPublic
    lookup,           \* the outstanding result of assignments_by_type, if any
    \* ---- leaf records (contract/rights.rs)
    leafKind,         \* which of the four leaf record types is produced
    produced,         \* the leaves in the order they were produced
    sortedLeaves,     \* the produced leaves after sorting, if sorted
    \* ---- schema (schema/schema.rs)
    schema,           \* the Schema value being built
    snap,             \* a clone of the schema taken earlier, if any
    blank,            \* the last blank_transition call: its schema and its result
    edits,            \* number of field assignments made to the schema
    cmpOut,           \* the last comparison of the clone with the schema
    \* ---- script (schema/script.rs)
    script,           \* a VmScript
    parentScript,     \* the VmScript of the parent schema
    rule,             \* the OverrideRules in force
    vmTypeOut,        \* the last vm_type call: its script and its result
    verdict,          \* the last override check: its inputs and its result
    conv,             \* the conversions into Action made so far
    \* ---- ABI tables (schema/script.rs)
    abi,              \* an ABI table: its type and its BTreeMap<action, EntryPoint>
    abiOut,           \* the last strict_serialize of the table: the table and the bytes
    \* ---- access to constructed rights containers (contract/rights.rs)
    built,            \* the four containers as they were constructed, if constructed
    yielded,          \* the last iteration: the method, the container and the items
    \* ---- schema identity (schema/schema.rs)
    idOut             \* the first and the latest schema_id call: schema and id of each

rightsVars == <<owned, public, parentOwned, parentPublic, ownedLog, publicLog,
                parentOwnedLog, parentPublicLog, lookup>>
leafVars   == <<leafKind, produced, sortedLeaves>>
schemaVars == <<schema, snap, blank, edits, cmpOut>>
scriptVars == <<script, parentScript, rule, vmTypeOut, verdict, conv>>
abiVars    == <<abi, abiOut>>
accessVars == <<built, yielded>>
idVars     == <<idOut>>
vars       == <<rightsVars, leafVars, schemaVars, scriptVars, abiVars, accessVars, idVars>>

(***************************************************************************)
(* Bounds of the model.                                                    *)
(***************************************************************************)
\* total number of insertions made while building the rights containers
MaxInserts == 3
\* largest type identifier / node identifier drawn as an input
MaxType == 2
\* number of leaves produced for one container
MaxLeaves == 2
\* largest slot index / Merkle node value drawn as an input
MaxIndex == 1
\* longest AluVM bytecode drawn as an input
MaxCode == 1
\* largest byte value drawn as an input
MaxByte == 1
\* number of field assignments made while building a schema
MaxEdits == 2
\* capacity of a TinyOrdMap / TinyOrdSet, scaled down from u8::MAX entries
TinyCap == 2

(***************************************************************************)
(* Option<T>: None is the empty tuple, Some(x) the one-element tuple.      *)
(***************************************************************************)
None == <<>>
Some(x) == <<x>>
is_some(o) == Len(o) = 1

\* All bijections of 1..n onto itself.
Perms(n) == {f \in [1..n -> 1..n] : \A i, j \in 1..n : f[i] = f[j] => i = j}

(***************************************************************************)
(* std::collections::BTreeMap / BTreeSet, as the containers use them.      *)
(* A map is the sequence of its <<key, value>> entries in iteration order, *)
(* a set the sequence of its keys in iteration order.                      *)
(***************************************************************************)
BTreeMap_new == <<>>

BTreeMap_insert_unordered(m, k, v) == Append(m, <<k, v>>)
\* BTreeMap::insert: the entry of an equal key is replaced, the others keep
\* their place, the new entry goes between the smaller and the larger keys.
BTreeMap_insert(m, k, v) ==
    SelectSeq(m, LAMBDA e : e[1] < k) \o << <<k, v>> >> \o SelectSeq(m, LAMBDA e : e[1] > k)

\* BTreeMap::get: Some(value) of the entry with that key, None without one.
BTreeMap_get(m, k) ==
    LET hits == SelectSeq(m, LAMBDA e : e[1] = k)
    IN  IF Len(hits) = 0 THEN None ELSE Some(hits[1][2])

BTreeMap_keys(m) == [i \in 1..Len(m) |-> m[i][1]]

BTreeSet_new == <<>>

\* BTreeSet::insert: an element already present is kept once.
BTreeSet_insert(s, k) ==
    SelectSeq(s, LAMBDA e : e < k) \o <<k>> \o SelectSeq(s, LAMBDA e : e > k)

RECURSIVE BTreeMap_from(_)
\* the map built by inserting the entries of es, in that order
BTreeMap_from(es) ==
    IF Len(es) = 0 THEN BTreeMap_new
    ELSE LET e == es[Len(es)]
         IN  BTreeMap_insert(BTreeMap_from(SubSeq(es, 1, Len(es) - 1)), e[1], e[2])

RECURSIVE BTreeSet_from(_)
\* the set built by inserting the elements of es, in that order
BTreeSet_from(es) ==
    IF Len(es) = 0 THEN BTreeSet_new
    ELSE BTreeSet_insert(BTreeSet_from(SubSeq(es, 1, Len(es) - 1)), es[Len(es)])

(***************************************************************************)
(* Value domains of the rights containers.                                 *)
(***************************************************************************)
OwnedRightType  == 1..MaxType
PublicRightType == 1..MaxType
NodeId          == 1..MaxType

\* TypedAssignments: a variant tag and the vector of its assignments.
TypedAssignments ==
    { [variant |-> "Void",  vec |-> <<>>],
      [variant |-> "Value", vec |-> <<0>>] }

\* static EMPTY_ASSIGNMENTS: the one value returned for every absent type
EMPTY_ASSIGNMENTS == [variant |-> "Void", vec |-> <<>>]

\* what an unwrap of None would produce instead of a value
PANIC == [variant |-> "panic", vec |-> <<>>]

\* the inner maps of ParentOwnedRights: type -> Vec<u16> of slot indices
ParentOwnedInner ==
    { BTreeMap_from(es) : es \in { <<>>, << <<2, <<1, 0>>>> >>,
                                   << <<2, <<0>>>>, <<1, <<1>>>> >> } }

\* the inner sets of ParentPublicRights
ParentPublicInner == { BTreeSet_from(es) : es \in { <<1>>, <<2, 1>> } }

(***************************************************************************)
(* OwnedRights                                                             *)
(***************************************************************************)
unwrap_or(o, default) == IF is_some(o) THEN o[1] ELSE default

unwrap(o) == IF is_some(o) THEN o[1] ELSE PANIC

assignments_by_type_unwrap(self, owned_rights_type) ==
    unwrap(BTreeMap_get(self, owned_rights_type))
\* OwnedRights::assignments_by_type
assignments_by_type(self, owned_rights_type) ==
    unwrap_or(BTreeMap_get(self, owned_rights_type), EMPTY_ASSIGNMENTS)

\* OwnedRights::iter, PublicRights::iter, ...: the entries in the map's order
iter(self) == self

\* the frame of the rights machine: the other machines do not move
RightsFrame == UNCHANGED <<leafKind, produced, sortedLeaves, schema, snap, blank, edits, cmpOut, script,
                           parentScript, rule, vmTypeOut, verdict, conv, abi, abiOut, built,
                           yielded, idOut>>

\* number of insertions made so far
Inserts == Len(ownedLog) + Len(publicLog) + Len(parentOwnedLog) + Len(parentPublicLog)

\* no reference into owned is outstanding (a shared borrow forbids mutation)
NoBorrow == lookup = None

RightsInit ==
    /\ owned = BTreeMap_new
    /\ public = BTreeSet_new
    /\ parentOwned = BTreeMap_new
    /\ parentPublic = BTreeMap_new
    /\ ownedLog = <<>>
    /\ publicLog = <<>>
    /\ parentOwnedLog = <<>>
    /\ parentPublicLog = <<>>
    /\ lookup = None

\* construction of an OwnedRights: one insertion into its backing map
OwnedInsert ==
    /\ RightsFrame
    /\ Inserts < MaxInserts
    /\ NoBorrow
    /\ \E k \in OwnedRightType, v \in TypedAssignments :
          /\ owned' = BTreeMap_insert(owned, k, v)
          /\ ownedLog' = Append(ownedLog, <<k, v>>)
    /\ UNCHANGED <<public, parentOwned, parentPublic, publicLog, parentOwnedLog,
                   parentPublicLog, lookup>>

\* construction of a PublicRights: one insertion into its backing set
PublicInsert ==
    /\ RightsFrame
    /\ Inserts < MaxInserts
    /\ \E k \in PublicRightType :
          /\ public' = BTreeSet_insert(public, k)
          /\ publicLog' = Append(publicLog, k)
    /\ UNCHANGED <<owned, parentOwned, parentPublic, ownedLog, parentOwnedLog,
                   parentPublicLog, lookup>>

\* construction of a ParentOwnedRights: one insertion into its backing map
ParentOwnedInsert ==
    /\ RightsFrame
    /\ Inserts < MaxInserts
    /\ \E n \in NodeId, inner \in ParentOwnedInner :
          /\ parentOwned' = BTreeMap_insert(parentOwned, n, inner)
          /\ parentOwnedLog' = Append(parentOwnedLog, <<n, inner>>)
    /\ UNCHANGED <<owned, public, parentPublic, ownedLog, publicLog,
                   parentPublicLog, lookup>>

\* construction of a ParentPublicRights: one insertion into its backing map
ParentPublicInsert ==
    /\ RightsFrame
    /\ Inserts < MaxInserts
    /\ \E n \in NodeId, inner \in ParentPublicInner :
          /\ parentPublic' = BTreeMap_insert(parentPublic, n, inner)
          /\ parentPublicLog' = Append(parentPublicLog, <<n, inner>>)
    /\ UNCHANGED <<owned, public, parentOwned, ownedLog, publicLog,
                   parentOwnedLog, lookup>>

\* a call of assignments_by_type; the reference it returns stays borrowed
AssignmentsByType ==
    /\ RightsFrame
    /\ NoBorrow
    /\ \E t \in 1..(MaxType + 1) :
          lookup' = Some([type |-> t, result |-> assignments_by_type(owned, t)])
    /\ UNCHANGED <<owned, public, parentOwned, parentPublic, ownedLog, publicLog,
                   parentOwnedLog, parentPublicLog>>

\* the reference returned by assignments_by_type goes out of scope
ReleaseLookup ==
    /\ RightsFrame
    /\ ~NoBorrow
    /\ lookup' = None
    /\ UNCHANGED <<owned, public, parentOwned, parentPublic, ownedLog, publicLog,
                   parentOwnedLog, parentPublicLog>>

RightsNext ==
    \/ OwnedInsert
    \/ PublicInsert
    \/ ParentOwnedInsert
    \/ ParentPublicInsert
    \/ AssignmentsByType
    \/ ReleaseLookup

(***************************************************************************)
(* Access to constructed containers: the methods the four wrappers expose  *)
(* once a container has been made From its inner collection.               *)
(***************************************************************************)
\* the four container types
RightsKinds == {"OwnedRights", "PublicRights", "ParentOwnedRights", "ParentPublicRights"}

\* the inner maps with keys in K and values in V, of up to MaxInserts entries
MapsOf(K, V) ==
    { BTreeMap_from(es) : es \in UNION { [1..n -> K \X V] : n \in 0..MaxInserts } }

\* the inner sets with keys in K, of up to MaxInserts entries
SetsOf(K) ==
    { BTreeSet_from(es) : es \in UNION { [1..n -> K] : n \in 0..MaxInserts } }

\* the container of the given type
container(kind) ==
    CASE kind = "OwnedRights"        -> owned
      [] kind = "PublicRights"       -> public
      [] kind = "ParentOwnedRights"  -> parentOwned
      [] kind = "ParentPublicRights" -> parentPublic

\* the values an entry of the given container type can hold
ValuesOf(kind) ==
    CASE kind = "OwnedRights"        -> TypedAssignments
      [] kind = "ParentOwnedRights"  -> ParentOwnedInner
      [] kind = "ParentPublicRights" -> ParentPublicInner

\* the keys of a container in iteration order
keys_of(kind, c) == IF kind = "PublicRights" THEN c ELSE BTreeMap_keys(c)

iter_mut_take(self, vals) == BTreeMap_new
\* a loop over iter_mut(): it yields (&K, &mut V), so the i-th value can be
\* overwritten by vals[i] and the key cannot
iter_mut(self, vals) == [i \in 1..Len(self) |-> <<self[i][1], vals[i]>>]

\* OwnedRights::from(inner) .. ParentPublicRights::from(inner): one container
\* is made from a filled inner collection, the others are Default; the
\* containers are independent values
AccessInit ==
    /\ \E kind \in RightsKinds :
          /\ owned \in IF kind = "OwnedRights"
                       THEN MapsOf(OwnedRightType, TypedAssignments) ELSE {BTreeMap_new}
          /\ public \in IF kind = "PublicRights"
                        THEN SetsOf(PublicRightType) ELSE {BTreeSet_new}
          /\ parentOwned \in IF kind = "ParentOwnedRights"
                             THEN MapsOf(NodeId, ParentOwnedInner) ELSE {BTreeMap_new}
          /\ parentPublic \in IF kind = "ParentPublicRights"
                              THEN MapsOf(NodeId, ParentPublicInner) ELSE {BTreeMap_new}
    /\ ownedLog = owned
    /\ publicLog = public
    /\ parentOwnedLog = parentOwned
    /\ parentPublicLog = parentPublic
    /\ lookup = None
    /\ built = Some([OwnedRights |-> owned, PublicRights |-> public,
                     ParentOwnedRights |-> parentOwned,
                     ParentPublicRights |-> parentPublic])
    /\ yielded = None

AccessFrame == UNCHANGED <<leafVars, schemaVars, scriptVars, abiVars, idVars>>

\* what an iteration records: the method, the container type and the keys of
\* the container when the iteration is over
Yield(method, kind, after) ==
    Some([method |-> method, of |-> kind, keys |-> keys_of(kind, after)])

\* the container of type target after a loop over iter_mut() of the container
\* of type kind has written vals
written(target, kind, vals) ==
    IF kind = target THEN iter_mut(container(kind), vals) ELSE container(target)

\* c.iter(): the container is only read
Iter ==
    /\ AccessFrame
    /\ \E kind \in RightsKinds :
          yielded' = Yield("iter", kind, iter(container(kind)))
    /\ UNCHANGED <<rightsVars, built>>

\* (&c).into_iter(), which is self.0.iter()
IntoIterRef ==
    /\ AccessFrame
    /\ \E kind \in RightsKinds :
          yielded' = Yield("into_iter(&)", kind, iter(container(kind)))
    /\ UNCHANGED <<rightsVars, built>>

\* c.iter_mut(), with writes through the yielded values; PublicRights has none
IterMut ==
    /\ AccessFrame
    /\ \E kind \in RightsKinds \ {"PublicRights"} :
          /\ kind = "OwnedRights" => NoBorrow
          /\ \E vals \in [1..Len(container(kind)) -> ValuesOf(kind)] :
                /\ owned' = written("OwnedRights", kind, vals)
                /\ parentOwned' = written("ParentOwnedRights", kind, vals)
                /\ parentPublic' = written("ParentPublicRights", kind, vals)
                /\ yielded' = Yield("iter_mut", kind, written(kind, kind, vals))
    /\ UNCHANGED <<public, ownedLog, publicLog, parentOwnedLog, parentPublicLog,
                   lookup, built>>

\* (&mut c).into_iter(), which is self.0.iter_mut(); PublicRights has none
IntoIterRefMut ==
    /\ AccessFrame
    /\ \E kind \in RightsKinds \ {"PublicRights"} :
          /\ kind = "OwnedRights" => NoBorrow
          /\ \E vals \in [1..Len(container(kind)) -> ValuesOf(kind)] :
                /\ owned' = written("OwnedRights", kind, vals)
                /\ parentOwned' = written("ParentOwnedRights", kind, vals)
                /\ parentPublic' = written("ParentPublicRights", kind, vals)
                /\ yielded' = Yield("into_iter(&mut)", kind, written(kind, kind, vals))
    /\ UNCHANGED <<public, ownedLog, publicLog, parentOwnedLog, parentPublicLog,
                   lookup, built>>

(***************************************************************************)
(* Initial values of the other machines' variables.                        *)
(***************************************************************************)
LeafIdle == leafKind = "PublicRightsLeaf" /\ produced = <<>> /\ sortedLeaves = None
SchemaIdle ==
    schema = None /\ snap = None /\ blank = None /\ edits = 0 /\ cmpOut = None
ScriptIdle ==
    /\ script = None /\ parentScript = None /\ rule = None
    /\ vmTypeOut = None /\ verdict = None /\ conv = {}
AbiIdle == abi = None /\ abiOut = None
AccessIdle == built = None /\ yielded = None
IdIdle == idOut = None

Init == RightsInit /\ LeafIdle /\ SchemaIdle /\ ScriptIdle /\ AbiIdle /\ AccessIdle /\ IdIdle
Next == RightsNext
Spec == Init /\ [][Next]_vars

InitAccess ==
    /\ AccessInit /\ LeafIdle /\ SchemaIdle /\ ScriptIdle /\ AbiIdle /\ IdIdle
NextAccess ==
    \/ Iter
    \/ IntoIterRef
    \/ IterMut
    \/ IntoIterRefMut
    \/ AssignmentsByType
    \/ ReleaseLookup
SpecAccess == InitAccess /\ [][NextAccess]_vars

(***************************************************************************)
(* Leaf records: tuple structs with derived Ord.  A leaf is the tuple of   *)
(* its fields in declaration order.                                        *)
(***************************************************************************)
LeafKinds ==
    {"PublicRightsLeaf", "OwnedRightsLeaf", "ParentPublicRightsLeaf", "ParentOwnedRightsLeaf"}

MerkleNode == 0..MaxIndex
SlotIndex  == 0..MaxIndex

\* the values of each leaf record type
LeafValues(kind) ==
    CASE kind = "PublicRightsLeaf"       -> { <<t>> : t \in PublicRightType }
      [] kind = "OwnedRightsLeaf"        -> { <<t, m>> : t \in OwnedRightType, m \in MerkleNode }
      [] kind = "ParentPublicRightsLeaf" -> { <<n, t>> : n \in NodeId, t \in PublicRightType }
      [] kind = "ParentOwnedRightsLeaf"  ->
            { <<n, t, i>> : n \in NodeId, t \in OwnedRightType, i \in SlotIndex }

\* Ord::cmp of one field
field_cmp(x, y) == IF x < y THEN "Less" ELSE IF x > y THEN "Greater" ELSE "Equal"

RECURSIVE cmp_from(_, _, _)
\* derived Ord of a tuple struct: the first field that differs decides
cmp_from(a, b, i) ==
    IF i > Len(a) THEN "Equal"
    ELSE LET c == field_cmp(a[i], b[i])
         IN  IF c # "Equal" THEN c ELSE cmp_from(a, b, i + 1)

Leaf_cmp_first_field(a, b) == field_cmp(a[1], b[1])
\* #[derive(Ord, PartialOrd)] of the four leaf records
Leaf_cmp(a, b) == cmp_from(a, b, 1)

\* one step of a stable sort: x goes after the leaves not greater than it
sort_insert(s, x) ==
    SelectSeq(s, LAMBDA e : Leaf_cmp(e, x) # "Greater")
        \o <<x>> \o SelectSeq(s, LAMBDA e : Leaf_cmp(e, x) = "Greater")

RECURSIVE sort(_)
\* slice::sort by the derived order
sort(s) ==
    IF Len(s) = 0 THEN <<>>
    ELSE sort_insert(sort(SubSeq(s, 1, Len(s) - 1)), s[Len(s)])

LeafFrame == UNCHANGED <<rightsVars, schemaVars, scriptVars, abiVars, accessVars, idVars>>

LeafInit ==
    /\ leafKind \in LeafKinds
    /\ produced = <<>>
    /\ sortedLeaves = None

\* one more leaf of the container is produced, in whatever order
ProduceLeaf ==
    /\ LeafFrame
    /\ Len(produced) < MaxLeaves
    /\ \E l \in LeafValues(leafKind) : produced' = Append(produced, l)
    /\ sortedLeaves' = None
    /\ UNCHANGED leafKind

\* the produced leaves are sorted into the committed sequence
SortLeaves ==
    /\ LeafFrame
    /\ sortedLeaves = None
    /\ sortedLeaves' = Some(sort(produced))
    /\ UNCHANGED <<leafKind, produced>>

RightsIdle == RightsInit

InitLeaves == LeafInit /\ RightsIdle /\ SchemaIdle /\ ScriptIdle /\ AbiIdle /\ AccessIdle /\ IdIdle
NextLeaves ==
    \/ ProduceLeaf
    \/ SortLeaves
SpecLeaves == InitLeaves /\ [][NextLeaves]_vars

(***************************************************************************)
(* Script and ABI dispatch (schema/script.rs)                              *)
(***************************************************************************)
\* all byte strings of length at most n
RECURSIVE BytesUpTo(_)
BytesUpTo(n) ==
    IF n = 0 THEN { <<>> }
    ELSE LET shorter == BytesUpTo(n - 1)
         IN  shorter \cup { Append(c, b) : c \in shorter, b \in 0..MaxByte }

\* enum VmScript { Embedded, AluVM(MediumVec<u8>) }
Embedded == <<"Embedded">>
AluVM(code) == <<"AluVM", code>>
VmScript == { Embedded } \cup { AluVM(code) : code \in BytesUpTo(MaxCode) }

\* enum VmType { Embedded, AluVM }
VmType == {"VmType::Embedded", "VmType::AluVM"}

\* impl Default for VmScript
VmScript_default == Embedded

vm_type_swapped(self) ==
    CASE self[1] = "Embedded" -> "VmType::AluVM"
      [] self[1] = "AluVM"    -> "VmType::Embedded"
vm_type_of_variant(self) ==
    CASE self[1] = "Embedded" -> "VmType::Embedded"
      [] self[1] = "AluVM"    -> "VmType::AluVM"
vm_type_embedded_only(self) == "VmType::Embedded"
\* VmScript::vm_type
vm_type(self) == vm_type_of_variant(self)

\* enum OverrideRules { Deny = 0, AllowSameVm = 1, AllowAnyVm = 2 }
OverrideRules == {"Deny", "AllowSameVm", "AllowAnyVm"}

\* impl Default for OverrideRules
OverrideRules_default == "Deny"

\* the acceptance of a child schema's script under the parent's rule
override_accepts(r, parent, child) ==
    CASE r = "Deny"        -> child = parent
      [] r = "AllowSameVm" -> vm_type(child) = vm_type(parent)
      [] r = "AllowAnyVm"  -> TRUE

\* enum Action, #[repr(u8)]: the discriminant of each variant
Action_tag(a) ==
    CASE a = "ValidateGenesis"    -> 0
      [] a = "ValidateTransition" -> 2
      [] a = "ValidateExtension"  -> 3
      [] a = "ValidateAssignment" -> 4
      [] a = "BlankTransition"    -> 16

\* the context enums, #[repr(u8)]: the discriminant of each variant
Local_tag(ctx, variant) ==
    CASE ctx = "GenesisAction"    /\ variant = "Validate"      -> 0
      [] ctx = "ExtensionAction"  /\ variant = "Validate"      -> 0
      [] ctx = "TransitionAction" /\ variant = "Validate"      -> 0
      [] ctx = "TransitionAction" /\ variant = "GenerateBlank" -> 1
      [] ctx = "AssignmentAction" /\ variant = "Validate"      -> 0

\* every (context enum, variant) pair the context enums declare
ContextActions ==
    { <<"GenesisAction", "Validate">>, <<"ExtensionAction", "Validate">>,
      <<"TransitionAction", "Validate">>, <<"TransitionAction", "GenerateBlank">>,
      <<"AssignmentAction", "Validate">> }

\* impl From<GenesisAction> for Action
From_GenesisAction(action) ==
    CASE action = "Validate" -> "ValidateGenesis"

\* impl From<ExtensionAction> for Action
From_ExtensionAction(action) ==
    CASE action = "Validate" -> "ValidateExtension"

From_TransitionAction_same_arm(action) ==
    CASE action = "Validate"      -> "ValidateTransition"
      [] action = "GenerateBlank" -> "ValidateTransition"
\* impl From<TransitionAction> for Action
From_TransitionAction(action) ==
    CASE action = "Validate"      -> "ValidateTransition"
      [] action = "GenerateBlank" -> "BlankTransition"

\* impl From<AssignmentAction> for Action
From_AssignmentAction(action) ==
    CASE action = "Validate" -> "ValidateAssignment"

\* Into<Action>, resolved by the type of the context action
into_action(ctx, variant) ==
    CASE ctx = "GenesisAction"    -> From_GenesisAction(variant)
      [] ctx = "ExtensionAction"  -> From_ExtensionAction(variant)
      [] ctx = "TransitionAction" -> From_TransitionAction(variant)
      [] ctx = "AssignmentAction" -> From_AssignmentAction(variant)

ScriptFrame == UNCHANGED <<rightsVars, leafVars, schemaVars, abiVars, accessVars, idVars>>

ScriptInit ==
    /\ script = VmScript_default
    /\ parentScript = VmScript_default
    /\ rule = OverrideRules_default
    /\ vmTypeOut = None
    /\ verdict = None
    /\ conv = {}

\* a script value is constructed; results computed from the old one are gone
SetScript ==
    /\ ScriptFrame
    /\ \E s \in VmScript : script' = s
    /\ vmTypeOut' = None
    /\ verdict' = None
    /\ UNCHANGED <<parentScript, rule, conv>>

\* the parent schema's script is constructed
SetParentScript ==
    /\ ScriptFrame
    /\ \E s \in VmScript : parentScript' = s
    /\ verdict' = None
    /\ UNCHANGED <<script, rule, vmTypeOut, conv>>

\* the parent schema's override rule is chosen
SetRule ==
    /\ ScriptFrame
    /\ \E r \in OverrideRules : rule' = r
    /\ verdict' = None
    /\ UNCHANGED <<script, parentScript, vmTypeOut, conv>>

\* a call of script.vm_type()
VmTypeCall ==
    /\ ScriptFrame
    /\ vmTypeOut' = Some([of |-> script, result |-> vm_type(script)])
    /\ UNCHANGED <<script, parentScript, rule, verdict, conv>>

\* the override rule is evaluated for the child script against the parent's
CheckOverride ==
    /\ ScriptFrame
    /\ verdict' = Some([rule |-> rule, parent |-> parentScript, child |-> script,
                        accepted |-> override_accepts(rule, parentScript, script)])
    /\ UNCHANGED <<script, parentScript, rule, vmTypeOut, conv>>

\* a context action is converted into the unified Action
ConvertAction ==
    /\ ScriptFrame
    /\ \E ca \in ContextActions :
          conv' = conv \cup { [ctx |-> ca[1], variant |-> ca[2],
                               action |-> into_action(ca[1], ca[2]),
                               tag |-> Action_tag(into_action(ca[1], ca[2]))] }
    /\ UNCHANGED <<script, parentScript, rule, vmTypeOut, verdict>>

InitScript == ScriptInit /\ RightsIdle /\ LeafIdle /\ SchemaIdle /\ AbiIdle /\ AccessIdle /\ IdIdle
NextScript ==
    \/ SetScript
    \/ SetParentScript
    \/ SetRule
    \/ VmTypeCall
    \/ CheckOverride
    \/ ConvertAction
SpecScript == InitScript /\ [][NextScript]_vars

(***************************************************************************)
(* Schema (schema/schema.rs)                                               *)
(***************************************************************************)
\* pub const BLANK_TRANSITION_ID: u16 = TransitionType::MAX
BLANK_TRANSITION_ID == 65535

\* type identifiers a schema may declare: one more than a catalog can hold
AssignmentType  == 1..(TinyCap + 1)
GlobalStateType == 1..1
ValencyType     == 1..1
ExtensionType   == 1..1
TransitionType  == 1..1

FfvValues == 0..1
TypeSystemValues == 0..1
GlobalStateSchemaValues == 1..1
StateSchemaValues == {"Declarative", "Fungible"}
OccurrencesValues == {"Once", "NoneOrMore"}
\* the scripts a schema is given: no code, or one byte of bytecode
SchemaScripts == { Embedded, AluVM(<<0>>), AluVM(<<1>>) }

\* TinyOrdMap::insert on a confined map: refused (the map is left as it is)
\* when the map is full and the key is new
TinyOrdMap_insert(m, k, v) ==
    IF Len(m) = TinyCap /\ ~is_some(BTreeMap_get(m, k)) THEN m
    ELSE BTreeMap_insert(m, k, v)

\* TinyOrdSet::push on a confined set
TinyOrdSet_push(st, k) ==
    IF Len(st) = TinyCap /\ \A i \in 1..Len(st) : st[i] # k THEN st
    ELSE BTreeSet_insert(st, k)

\* TransitionSchema::default(): no inputs and no assignments declared
TransitionSchema_default == [inputs |-> BTreeMap_new, assignments |-> BTreeMap_new]
\* GenesisSchema::default()
GenesisSchema_default == [assignments |-> BTreeMap_new]
\* ExtensionSchema::default()
ExtensionSchema_default == [assignments |-> BTreeMap_new]

ExtensionSchemaValues == { [assignments |-> << <<1, "Once">> >>] }
TransitionSchemaValues ==
    { TransitionSchema_default,
      [inputs |-> << <<1, "Once">> >>, assignments |-> << <<1, "NoneOrMore">> >>] }

\* derive(Default) of Schema<Root>
Schema_default(Root) ==
    [ Root          |-> Root,
      ffv           |-> 0,
      subset_of     |-> None,
      global_types  |-> BTreeMap_new,
      owned_types   |-> BTreeMap_new,
      valency_types |-> BTreeSet_new,
      genesis       |-> GenesisSchema_default,
      extensions    |-> BTreeMap_new,
      transitions   |-> BTreeMap_new,
      type_system   |-> 0,
      script        |-> VmScript_default ]

\* the type parameter: () for a RootSchema, RootSchema for a SubSchema
SchemaRoot == {"()", "RootSchema"}

RootValues_any_schema(Root) ==
    IF Root = "()" THEN {"()"}
    ELSE { Schema_default("()"),
           [Schema_default("RootSchema") EXCEPT !.subset_of = Some(Schema_default("()"))] }
\* the values of Option<Root>::Some: impl SchemaRoot for () and for RootSchema
RootValues(Root) ==
    IF Root = "()" THEN {"()"}
    ELSE { Schema_default("()"), [Schema_default("()") EXCEPT !.ffv = 1] }

RECURSIVE blank_from(_, _, _)
\* the loop of blank_transition over owned_types.keys(), from the i-th key
blank_from(keys, i, acc) ==
    IF i > Len(keys) THEN acc
    ELSE blank_from(keys, i + 1,
            [acc EXCEPT !.inputs = TinyOrdMap_insert(@, keys[i], "NoneOrMore"),
                        !.assignments = TinyOrdMap_insert(@, keys[i], "NoneOrMore")])

RECURSIVE blank_from_inputs_only(_, _, _)
blank_from_inputs_only(keys, i, acc) ==
    IF i > Len(keys) THEN acc
    ELSE blank_from_inputs_only(keys, i + 1,
            [acc EXCEPT !.inputs = TinyOrdMap_insert(@, keys[i], "NoneOrMore")])

blank_transition_inputs_only(self) ==
    blank_from_inputs_only(BTreeMap_keys(self.owned_types), 1, TransitionSchema_default)
\* Schema::blank_transition
blank_transition(self) ==
    blank_from(BTreeMap_keys(self.owned_types), 1, TransitionSchema_default)

(***************************************************************************)
(* Strict encoding of a Schema and its commitment id.                      *)
(***************************************************************************)
u8(n) == <<n>>
u16_le(n) == <<n % 256, n \div 256>>
u24_le(n) == <<n % 256, (n \div 256) % 256, n \div 65536>>

RECURSIVE concat(_)
\* the byte strings of ss, one after the other
concat(ss) == IF Len(ss) = 0 THEN <<>> ELSE ss[1] \o concat(Tail(ss))

\* the bytes of bs from the last to the first
reverse(bs) == [i \in 1..Len(bs) |-> bs[Len(bs) + 1 - i]]

\* Occurrences: the minimum and the maximum, each a u16
Occurrences_encode(o) ==
    CASE o = "Once"       -> u16_le(1) \o u16_le(1)
      [] o = "NoneOrMore" -> u16_le(0) \o u16_le(65535)

\* StateSchema: the tag of the variant
StateSchema_encode(st) ==
    CASE st = "Declarative" -> u8(0)
      [] st = "Fungible"    -> u8(1)

\* a confined map with at most u8::MAX entries: the count, then every key
\* and value in the map's order; values[i] is the encoding of the i-th value
TinyOrdMap_encode(m, values) ==
    u8(Len(m)) \o concat([i \in 1..Len(m) |-> u16_le(m[i][1]) \o values[i]])

\* a confined set with at most u8::MAX elements
TinyOrdSet_encode(st) ==
    u8(Len(st)) \o concat([i \in 1..Len(st) |-> u16_le(st[i])])

OccurrencesMap_encode(m) ==
    TinyOrdMap_encode(m, [i \in 1..Len(m) |-> Occurrences_encode(m[i][2])])
GenesisSchema_encode(g) == OccurrencesMap_encode(g.assignments)
ExtensionSchema_encode(x) == OccurrencesMap_encode(x.assignments)
TransitionSchema_encode(t) ==
    OccurrencesMap_encode(t.inputs) \o OccurrencesMap_encode(t.assignments)

VmScript_strict_encode_tag_only(scr) ==
    CASE scr[1] = "Embedded" -> u8(0)
      [] scr[1] = "AluVM"    -> u8(1)
\* #[strict_encoding(by_value, repr = u8)] of VmScript: the variant's value,
\* then for AluVM the MediumVec: a 24-bit length and the bytes
VmScript_strict_encode(scr) ==
    CASE scr[1] = "Embedded" -> u8(0)
      [] scr[1] = "AluVM"    -> u8(1) \o u24_le(Len(scr[2])) \o scr[2]

RECURSIVE Schema_strict_encode(_)
\* derive(StrictEncode) of Schema<Root>: every field, in declaration order
Schema_strict_encode(sch) ==
    u16_le(sch.ffv)
    \o (IF ~is_some(sch.subset_of) THEN u8(0)
        ELSE u8(1) \o (IF sch.Root = "()" THEN <<>>
                       ELSE Schema_strict_encode(sch.subset_of[1])))
    \o TinyOrdMap_encode(sch.global_types,
            [i \in 1..Len(sch.global_types) |-> u16_le(sch.global_types[i][2])])
    \o TinyOrdMap_encode(sch.owned_types,
            [i \in 1..Len(sch.owned_types) |-> StateSchema_encode(sch.owned_types[i][2])])
    \o TinyOrdSet_encode(sch.valency_types)
    \o GenesisSchema_encode(sch.genesis)
    \o TinyOrdMap_encode(sch.extensions,
            [i \in 1..Len(sch.extensions) |-> ExtensionSchema_encode(sch.extensions[i][2])])
    \o TinyOrdMap_encode(sch.transitions,
            [i \in 1..Len(sch.transitions) |-> TransitionSchema_encode(sch.transitions[i][2])])
    \o u8(sch.type_system)
    \o VmScript_strict_encode(sch.script)

\* const TAG: [u8; 32] = *b"urn:lnpbp:rgb:schema:v01#202302A"
Schema_TAG ==
    <<117, 114, 110, 58, 108, 110, 112, 98, 112, 58, 114, 103, 98, 58, 115, 99,
      104, 101, 109, 97, 58, 118, 48, 49, 35, 50, 48, 50, 51, 48, 50, 65>>

\* the tagged digest of a message.  The hash is taken to be collision free
\* and to keep nothing of the order of its messages: the digest of a message
\* is the tag and the message read backwards.
tagged_digest(tag, msg) == tag \o reverse(msg)

\* CommitmentId::commitment_id with the Strict commit strategy
commitment_id(self) == tagged_digest(Schema_TAG, Schema_strict_encode(self))

\* an id kept from the first call and returned again whatever the content
schema_id_cached(self) ==
    IF is_some(idOut) THEN idOut[1].first.id ELSE commitment_id(self)
\* Schema::schema_id
schema_id(self) == commitment_id(self)

\* Ord of byte strings: the first byte that differs decides, and a proper
\* prefix is less than the string it begins
bytes_cmp(x, y) ==
    LET n == IF Len(x) < Len(y) THEN Len(x) ELSE Len(y)
        differ == {i \in 1..n : x[i] # y[i]}
    IN  IF differ = {}
        THEN field_cmp(Len(x), Len(y))
        ELSE LET first == CHOOSE i \in differ : \A j \in differ : i <= j
             IN  field_cmp(x[first], y[first])

\* derive(Ord) of SchemaId(Bytes32)
SchemaId_cmp(x, y) == bytes_cmp(x, y)

\* impl PartialEq for Schema
Schema_eq(self, other) == schema_id(self) = schema_id(other)

Schema_cmp_structural(self, other) ==
    bytes_cmp(Schema_strict_encode(self), Schema_strict_encode(other))
\* impl Ord for Schema
Schema_cmp(self, other) == SchemaId_cmp(schema_id(self), schema_id(other))

\* impl PartialOrd for Schema
Schema_partial_cmp(self, other) == Some(Schema_cmp(self, other))

(***************************************************************************)
(* The schema machine: a Schema is built by assignments to its public      *)
(* fields, cloned, compared with its clone, and asked for its blank        *)
(* transition.                                                             *)
(***************************************************************************)
SchemaFrame == UNCHANGED <<rightsVars, leafVars, scriptVars, abiVars, accessVars, idVars>>

SchemaInit ==
    /\ schema \in { Schema_default(R) : R \in SchemaRoot }
    /\ snap = None
    /\ blank = None
    /\ edits = 0
    /\ cmpOut = None

\* an assignment that changes the schema to next; what was computed from the
\* old value is gone
Edit(next) ==
    /\ SchemaFrame
    /\ edits < MaxEdits
    /\ next # schema
    /\ schema' = next
    /\ edits' = edits + 1
    /\ blank' = None
    /\ cmpOut' = None
    /\ UNCHANGED snap

SetFfv == \E v \in FfvValues : Edit([schema EXCEPT !.ffv = v])

SetSubsetOf ==
    \E o \in {None} \cup { Some(r) : r \in RootValues(schema.Root) } :
        Edit([schema EXCEPT !.subset_of = o])

InsertGlobalType ==
    \E k \in GlobalStateType, v \in GlobalStateSchemaValues :
        Edit([schema EXCEPT !.global_types = TinyOrdMap_insert(@, k, v)])

InsertOwnedType ==
    \E k \in AssignmentType, v \in StateSchemaValues :
        Edit([schema EXCEPT !.owned_types = TinyOrdMap_insert(@, k, v)])

PushValencyType ==
    \E k \in ValencyType : Edit([schema EXCEPT !.valency_types = TinyOrdSet_push(@, k)])

SetGenesisAssignment ==
    \E k \in 1..1, o \in OccurrencesValues :
        Edit([schema EXCEPT !.genesis.assignments = TinyOrdMap_insert(@, k, o)])

InsertExtension ==
    \E k \in ExtensionType, v \in ExtensionSchemaValues :
        Edit([schema EXCEPT !.extensions = TinyOrdMap_insert(@, k, v)])

InsertTransition ==
    \E k \in TransitionType, v \in TransitionSchemaValues :
        Edit([schema EXCEPT !.transitions = TinyOrdMap_insert(@, k, v)])

SetTypeSystem == \E v \in TypeSystemValues : Edit([schema EXCEPT !.type_system = v])

SetSchemaScript == \E v \in SchemaScripts : Edit([schema EXCEPT !.script = v])

\* derive(Clone): a second Schema value with the content of the first
CloneSchema ==
    /\ SchemaFrame
    /\ snap = None
    /\ snap' = Some(schema)
    /\ UNCHANGED <<schema, blank, edits, cmpOut>>

\* a call of schema.blank_transition()
BlankTransition ==
    /\ SchemaFrame
    /\ blank' = Some([of |-> schema, result |-> blank_transition(schema)])
    /\ UNCHANGED <<schema, snap, edits, cmpOut>>

\* the clone is compared with the schema: ==, cmp and partial_cmp
CompareSchemas ==
    /\ SchemaFrame
    /\ is_some(snap)
    /\ cmpOut' = Some([a |-> snap[1], b |-> schema,
                       id_a |-> schema_id(snap[1]), id_b |-> schema_id(schema),
                       eq |-> Schema_eq(snap[1], schema),
                       cmp |-> Schema_cmp(snap[1], schema),
                       rev |-> Schema_cmp(schema, snap[1]),
                       partial_cmp |-> Schema_partial_cmp(snap[1], schema)])
    /\ UNCHANGED <<schema, snap, blank, edits>>

\* a call of schema.schema_id(): &self, the schema is only read
SchemaId ==
    /\ UNCHANGED <<rightsVars, leafVars, scriptVars, abiVars, accessVars>>
    /\ LET call == [of |-> schema, id |-> schema_id(schema)]
       IN  idOut' = IF is_some(idOut) THEN Some([idOut[1] EXCEPT !.last = call])
                    ELSE Some([first |-> call, last |-> call])
    /\ UNCHANGED schemaVars

InitSchema == SchemaInit /\ RightsIdle /\ LeafIdle /\ ScriptIdle /\ AbiIdle /\ AccessIdle /\ IdIdle
NextSchema ==
    \/ SetFfv
    \/ SetSubsetOf
    \/ InsertGlobalType
    \/ InsertOwnedType
    \/ PushValencyType
    \/ SetGenesisAssignment
    \/ InsertExtension
    \/ InsertTransition
    \/ SetTypeSystem
    \/ SetSchemaScript
    \/ CloneSchema
    \/ BlankTransition
    \/ CompareSchemas
SpecSchema == InitSchema /\ [][NextSchema]_vars

\* the life of one Schema value: field assignments, schema_id and
\* blank_transition calls in any order
NextIdentity ==
    \/ SetFfv
    \/ SetSubsetOf
    \/ InsertGlobalType
    \/ InsertOwnedType
    \/ PushValencyType
    \/ SetGenesisAssignment
    \/ InsertExtension
    \/ InsertTransition
    \/ SetTypeSystem
    \/ SetSchemaScript
    \/ BlankTransition
    \/ SchemaId
SpecIdentity == InitSchema /\ [][NextIdentity]_vars

(***************************************************************************)
(* ABI tables (schema/script.rs): a BTreeMap from a context action to an   *)
(* EntryPoint, filled by insertions and strict-serialized.                 *)
(***************************************************************************)
\* the four ABI table types
AbiTypes == {"GenesisAbi", "ExtensionAbi", "TransitionAbi", "AssignmentAbi"}

\* the context enum that keys each ABI table type
AbiKeyType(t) ==
    CASE t = "GenesisAbi"    -> "GenesisAction"
      [] t = "ExtensionAbi"  -> "ExtensionAction"
      [] t = "TransitionAbi" -> "TransitionAction"
      [] t = "AssignmentAbi" -> "AssignmentAction"

\* type EntryPoint = u24: values that reach each of its three bytes
EntryPoint == {0, 1, 45, 256, 65536}

\* strict encoding of an EntryPoint: the three little-endian bytes of a u24
EntryPoint_strict_encode(n) == u24_le(n)

\* strict encoding of a BTreeMap: the u16 count, then the key (the repr(u8)
\* discriminant of the context action) and the value of each entry in key order
strict_serialize(table) ==
    u16_le(Len(table)) \o
    concat([i \in 1..Len(table) |->
               u8(table[i][1]) \o EntryPoint_strict_encode(table[i][2])])

AbiFrame == UNCHANGED <<rightsVars, leafVars, schemaVars, scriptVars, accessVars, idVars>>

\* GenesisAbi::new() .. AssignmentAbi::new()
AbiInit ==
    /\ abi \in { [type |-> t, table |-> BTreeMap_new] : t \in AbiTypes }
    /\ abiOut = None

\* abi.insert(action, entry_point); the key is ordered by its discriminant
AbiInsert ==
    /\ AbiFrame
    /\ \E ca \in ContextActions, e \in EntryPoint :
          /\ ca[1] = AbiKeyType(abi.type)
          /\ abi' = [abi EXCEPT !.table = BTreeMap_insert(@, Local_tag(ca[1], ca[2]), e)]
    /\ UNCHANGED abiOut

\* strict_serialize(&abi)
StrictSerialize ==
    /\ AbiFrame
    /\ abiOut' = Some([of |-> abi, bytes |-> strict_serialize(abi.table)])
    /\ UNCHANGED abi

InitAbi ==
    /\ AbiInit /\ RightsIdle /\ LeafIdle /\ SchemaIdle /\ ScriptIdle /\ AccessIdle /\ IdIdle
NextAbi ==
    \/ AbiInsert
    \/ StrictSerialize
SpecAbi == InitAbi /\ [][NextAbi]_vars

(***************************************************************************)
(* Properties of the rights containers.                                    *)
(***************************************************************************)
\* the keys of a map, in iteration order, strictly ascend (hence are unique)
AscendingMap(m) == \A i, j \in 1..Len(m) : i < j => m[i][1] < m[j][1]
\* the elements of a set, in iteration order, strictly ascend
AscendingSet(s) == \A i, j \in 1..Len(s) : i < j => s[i] < s[j]
\* the insertions of log in the order p
Permute(log, p) == [i \in 1..Len(log) |-> log[p[i]]]
\* no key is inserted with two different values
ConflictFree(log) ==
    \A i, j \in 1..Len(log) : log[i][1] = log[j][1] => log[i][2] = log[j][2]
\* a map built from the insertions of log in any order equals m
AnyOrderMap(m, log) == \A p \in Perms(Len(log)) : BTreeMap_from(Permute(log, p)) = m
\* a set built from the insertions of log in any order equals s
AnyOrderSet(s, log) == \A p \in Perms(Len(log)) : BTreeSet_from(Permute(log, p)) = s

\* C1: assignments_by_type(t) is total: its result is the stored value when t
\* is a key of the backing map and EMPTY_ASSIGNMENTS when t is not a key; it
\* is never the outcome of a failed unwrap.
C1_AssignmentsByTypeTotal ==
    is_some(lookup) =>
        LET t == lookup[1].type
            r == lookup[1].result
            present == \E i \in 1..Len(owned) : owned[i][1] = t
        IN  /\ r # PANIC
            /\ present => \E i \in 1..Len(owned) : owned[i][1] = t /\ r = owned[i][2]
            /\ ~present => r = EMPTY_ASSIGNMENTS

\* C1 witness: a lookup of a type absent from a non-empty container returned
\* the empty value while another type is stored with a non-empty value.
C1_Witness ==
    /\ is_some(lookup)
    /\ Len(owned) > 0
    /\ \A i \in 1..Len(owned) : owned[i][1] # lookup[1].type /\ owned[i][2] # EMPTY_ASSIGNMENTS
    /\ lookup[1].result = EMPTY_ASSIGNMENTS

\* C9: in every container built from any sequence of insertions
\* the keys are unique and iteration is in strictly ascending key order; and a
\* container built from the same insertions in any other order is equal,
\* provided no key was inserted with two different values.
C9_CanonicalOrder ==
    /\ AscendingMap(iter(owned))
    /\ AscendingSet(iter(public))
    /\ AscendingMap(iter(parentOwned))
    /\ AscendingMap(iter(parentPublic))
    /\ \A i \in 1..Len(parentOwned) : AscendingMap(parentOwned[i][2])
    /\ \A i \in 1..Len(parentPublic) : AscendingSet(parentPublic[i][2])
    /\ ConflictFree(ownedLog) => AnyOrderMap(owned, ownedLog)
    /\ AnyOrderSet(public, publicLog)
    /\ ConflictFree(parentOwnedLog) => AnyOrderMap(parentOwned, parentOwnedLog)
    /\ ConflictFree(parentPublicLog) => AnyOrderMap(parentPublic, parentPublicLog)

\* C9 witness: keys were inserted in descending order, one of them twice with
\* the same value, and the container iterates in ascending order.
C9_Witness ==
    /\ Len(ownedLog) = 3
    /\ ownedLog[1][1] > ownedLog[2][1]
    /\ ownedLog[3] = ownedLog[1]
    /\ Len(owned) = 2
    /\ owned[1][1] < owned[2][1]

\* C9 as stated: unique keys and ascending iteration, and equality of the
\* containers for every reordering of the same insertions, also when one key
\* was inserted with different values.
C9_AnyOrderEqual ==
    /\ AscendingMap(iter(owned))
    /\ AscendingSet(iter(public))
    /\ AscendingMap(iter(parentOwned))
    /\ AscendingMap(iter(parentPublic))
    /\ AnyOrderMap(owned, ownedLog)
    /\ AnyOrderSet(public, publicLog)
    /\ AnyOrderMap(parentOwned, parentOwnedLog)
    /\ AnyOrderMap(parentPublic, parentPublicLog)

(***************************************************************************)
(* Properties of the leaf records.                                         *)
(***************************************************************************)
\* a precedes b lexicographically over the fields in declaration order
LexLess(a, b) ==
    \E i \in 1..Len(a) : a[i] < b[i] /\ \A j \in 1..(i - 1) : a[j] = b[j]
\* s lists exactly the leaves of r, each as often as r does
SameLeaves(s, r) ==
    /\ Len(s) = Len(r)
    /\ \A l \in LeafValues(leafKind) :
          Cardinality({i \in 1..Len(s) : s[i] = l}) = Cardinality({i \in 1..Len(r) : r[i] = l})

\* C10: the derived order of the leaf records is the lexicographic order over
\* the fields in declaration order and is total; sorting the produced leaves
\* gives one ascending sequence of the same leaves, the same for every order
\* in which they could have been produced.
C10_LeafOrderCanonical ==
    /\ \A i, j \in 1..Len(produced) :
          LET a == produced[i]
              b == produced[j]
          IN
          /\ Leaf_cmp(a, b) = "Less" <=> LexLess(a, b)
          /\ Leaf_cmp(a, b) = "Greater" <=> LexLess(b, a)
          /\ Leaf_cmp(a, b) = "Equal" <=> a = b
    /\ is_some(sortedLeaves) =>
          LET s == sortedLeaves[1]
          IN  /\ SameLeaves(s, produced)
              /\ \A i, j \in 1..Len(s) : i < j => (LexLess(s[i], s[j]) \/ s[i] = s[j])
              /\ \A p \in Perms(Len(produced)) : sort(Permute(produced, p)) = s

\* C10 witness: two parent owned leaves of one node and one type, produced
\* with the larger slot index first, have been sorted by the slot index.
C10_Witness ==
    /\ leafKind = "ParentOwnedRightsLeaf"
    /\ is_some(sortedLeaves)
    /\ produced = << <<2, 1, 1>>, <<2, 1, 0>> >>
    /\ sortedLeaves[1] = << <<2, 1, 0>>, <<2, 1, 1>> >>

(***************************************************************************)
(* Properties of the script and action taxonomy.                           *)
(***************************************************************************)
\* the table of section 4.4: context, variant, unified action, tag
ActionTable ==
    { <<"GenesisAction", "Validate", "ValidateGenesis", 0>>,
      <<"ExtensionAction", "Validate", "ValidateExtension", 3>>,
      <<"TransitionAction", "Validate", "ValidateTransition", 2>>,
      <<"TransitionAction", "GenerateBlank", "BlankTransition", 16>>,
      <<"AssignmentAction", "Validate", "ValidateAssignment", 4>> }

\* C5: every conversion made equals its row of the fixed table, every
\* (context, variant) pair has a row, and no two distinct pairs converted so
\* far share a unified tag, although every Validate variant has local tag 0.
C5_ActionMappingInjective ==
    /\ \A c \in conv : <<c.ctx, c.variant, c.action, c.tag>> \in ActionTable
    /\ \A c, d \in conv : c.tag = d.tag => (c.ctx = d.ctx /\ c.variant = d.variant)
    /\ \A ca \in ContextActions : \E row \in ActionTable : row[1] = ca[1] /\ row[2] = ca[2]
    /\ \A c \in conv : c.variant = "Validate" => Local_tag(c.ctx, c.variant) = 0

\* C5 witness: all five pairs have been converted, to five different tags.
C5_Witness ==
    /\ Cardinality(conv) = 5
    /\ Cardinality({ c.tag : c \in conv }) = 5
    /\ Cardinality({ c \in conv : Local_tag(c.ctx, c.variant) = 0 }) = 4

\* C6: vm_type() returns Embedded exactly for the Embedded script and AluVM
\* exactly for an AluVM script, whatever its bytecode; the default script is
\* Embedded and its vm_type() is Embedded.
C6_VmTypeOfScript ==
    /\ is_some(vmTypeOut) =>
          LET v == vmTypeOut[1]
          IN  /\ v.result = "VmType::Embedded" <=> v.of = Embedded
              /\ v.result = "VmType::AluVM" <=> \E code \in BytesUpTo(MaxCode) : v.of = AluVM(code)
    /\ VmScript_default = Embedded
    /\ vm_type(VmScript_default) = "VmType::Embedded"

\* C6 witness: vm_type() was called on an AluVM script with empty bytecode.
C6_Witness ==
    /\ is_some(vmTypeOut)
    /\ vmTypeOut[1].of = AluVM(<<>>)
    /\ vmTypeOut[1].result = "VmType::AluVM"

\* C7: Deny rejects every child script that differs from the parent's,
\* AllowSameVm accepts exactly the children of the parent's VM variant
\* whatever the bytecode, AllowAnyVm accepts every pair; the default rule is
\* Deny.
C7_OverrideRulesPredicate ==
    /\ is_some(verdict) =>
          LET v == verdict[1]
          IN  /\ (v.rule = "Deny" /\ v.child # v.parent) => ~v.accepted
              /\ v.rule = "AllowSameVm" => (v.accepted <=> v.child[1] = v.parent[1])
              /\ v.rule = "AllowAnyVm" => v.accepted
    /\ OverrideRules_default = "Deny"

\* C7 witness: AllowSameVm accepted a child whose bytecode differs from the
\* parent's bytecode.
C7_Witness ==
    /\ is_some(verdict)
    /\ verdict[1].rule = "AllowSameVm"
    /\ verdict[1].parent = AluVM(<<0>>)
    /\ verdict[1].child = AluVM(<<1>>)
    /\ verdict[1].accepted

(***************************************************************************)
(* Properties of the schema.                                               *)
(***************************************************************************)
\* the keys of a map, as a set
KeySet(m) == { m[i][1] : i \in 1..Len(m) }
\* x precedes y in the lexicographic order of byte strings
IdLess(x, y) ==
    \/ \E i \in 1..Len(x) :
          /\ i <= Len(y)
          /\ x[i] < y[i]
          /\ \A j \in 1..(i - 1) : x[j] = y[j]
    \/ Len(x) < Len(y) /\ \A j \in 1..Len(x) : x[j] = y[j]

\* C2: the inputs and the assignments of blank_transition(s) have exactly the
\* keys of s.owned_types, once each, all mapped to NoneOrMore, whether
\* owned_types is empty, partly filled or full.
C2_BlankTransitionKeys ==
    is_some(blank) =>
        LET o == blank[1].of
            r == blank[1].result
        IN  /\ KeySet(r.inputs) = KeySet(o.owned_types)
            /\ KeySet(r.assignments) = KeySet(o.owned_types)
            /\ Len(r.inputs) = Len(o.owned_types)
            /\ Len(r.assignments) = Len(o.owned_types)
            /\ \A i \in 1..Len(r.inputs) : r.inputs[i][2] = "NoneOrMore"
            /\ \A i \in 1..Len(r.assignments) : r.assignments[i][2] = "NoneOrMore"

\* C2 witness: the blank transition of a schema whose owned_types holds as
\* many entries as it can.
C2_Witness ==
    /\ is_some(blank)
    /\ Len(blank[1].of.owned_types) = TinyCap
    /\ Len(blank[1].result.inputs) = TinyCap
    /\ Len(blank[1].result.assignments) = TinyCap

\* C3: ==, cmp and partial_cmp of two schemas of one Root are those of their
\* schema ids: equal exactly when the ids are equal, ordered as the ids are
\* ordered, partial_cmp always Some(cmp); the order is total and agrees with
\* equality.
C3_SchemaOrderById ==
    is_some(cmpOut) =>
        LET c == cmpOut[1]
        IN  /\ c.eq <=> c.id_a = c.id_b
            /\ c.cmp = "Less" <=> IdLess(c.id_a, c.id_b)
            /\ c.cmp = "Greater" <=> IdLess(c.id_b, c.id_a)
            /\ c.cmp = "Equal" <=> c.id_a = c.id_b
            /\ c.partial_cmp = Some(c.cmp)
            /\ c.cmp = "Equal" <=> c.eq
            /\ c.cmp = "Less" <=> c.rev = "Greater"
            /\ c.cmp = "Greater" <=> c.rev = "Less"

\* C3 witness: two schemas that differ in one occurrence bound compare as
\* their ids do, against the order of their encoded fields.
C3_Witness ==
    /\ is_some(cmpOut)
    /\ ~cmpOut[1].eq
    /\ cmpOut[1].cmp = "Less"
    /\ bytes_cmp(Schema_strict_encode(cmpOut[1].a), Schema_strict_encode(cmpOut[1].b)) = "Greater"

\* C4: two schema values have the same schema id exactly when their declared
\* content is the same: a clone has the id of the original, and a schema that
\* differs from it in any declared field has another id.
C4_SchemaIdCommitsToContent ==
    is_some(cmpOut) => (cmpOut[1].a = cmpOut[1].b <=> cmpOut[1].id_a = cmpOut[1].id_b)

\* C4 witness: two schemas that differ only in their AluVM bytecode have
\* different ids.
C4_Witness ==
    /\ is_some(cmpOut)
    /\ cmpOut[1].a.script = AluVM(<<0>>)
    /\ cmpOut[1].b = [cmpOut[1].a EXCEPT !.script = AluVM(<<1>>)]
    /\ cmpOut[1].id_a # cmpOut[1].id_b

(***************************************************************************)
(* Properties of the ABI tables.                                           *)
(***************************************************************************)
\* the four little-endian bytes of n
four_le(n) == <<n % 256, (n \div 256) % 256, (n \div 65536) % 256, n \div 16777216>>

\* C11: the serialization of an ABI table is the 2-byte little-endian entry
\* count followed, for each entry in ascending action order, by the 1-byte
\* action tag and the 4-byte little-endian entry point; a table with the
\* single entry (Validate -> n), n < 256, gives [1, 0, 0, n, 0, 0, 0].
C11_AbiWireFormat ==
    is_some(abiOut) =>
        LET t == abiOut[1].of.table
            bytes == abiOut[1].bytes
        IN  /\ AscendingMap(t)
            /\ bytes = u16_le(Len(t)) \o
                       concat([i \in 1..Len(t) |-> <<t[i][1]>> \o four_le(t[i][2])])
            /\ (Len(t) = 1 /\ t[1][1] = 0 /\ t[1][2] < 256
                  => bytes = <<1, 0, 0, t[1][2], 0, 0, 0>>)

(***************************************************************************)
(* Properties of the schema hierarchy and of the schema identity.          *)
(***************************************************************************)
RECURSIVE SubsetDepth(_)
\* the number of schemas on the chain of subset_of references from s
SubsetDepth(s) ==
    IF s.Root = "()" THEN 0
    ELSE IF is_some(s.subset_of) THEN 1 + SubsetDepth(s.subset_of[1])
    ELSE 0

\* s is a root schema without a parent schema, or a subschema whose parent,
\* if present, is a root schema
ShallowSchema(s) ==
    /\ s.Root \in SchemaRoot
    /\ s.Root = "()" => s.subset_of \in {None, Some("()")}
    /\ s.Root = "RootSchema" /\ is_some(s.subset_of) => s.subset_of[1].Root = "()"
    /\ SubsetDepth(s) <= 1

\* C12: in every constructible Schema value a root schema has no parent
\* schema and the parent of a subschema, if present, is a root schema, so the
\* chain of subset_of references has depth at most one.
C12_SubsetOfDepth ==
    /\ ShallowSchema(schema)
    /\ is_some(snap) => ShallowSchema(snap[1])

\* C12 witness: a subschema whose subset_of holds a root schema that differs
\* from the default one.
C12_Witness ==
    /\ schema.Root = "RootSchema"
    /\ is_some(schema.subset_of)
    /\ schema.subset_of[1] # Schema_default("()")
    /\ SubsetDepth(schema) = 1

C14_KeysAsConstructed ==
    is_some(built) =>
        /\ \A kind \in RightsKinds :
              keys_of(kind, container(kind)) = keys_of(kind, built[1][kind])
        /\ public = built[1].PublicRights
        /\ is_some(yielded) =>
              /\ yielded[1].keys = keys_of(yielded[1].of, built[1][yielded[1].of])
              /\ yielded[1].of = "PublicRights" =>
                    yielded[1].method \in {"iter", "into_iter(&)"}

\* C14 witness: a ParentOwnedRights of two entries after an iter_mut loop that
\* replaced both of its values.
C14_Witness ==
    /\ is_some(built) /\ is_some(yielded)
    /\ yielded[1].method = "iter_mut"
    /\ yielded[1].of = "ParentOwnedRights"
    /\ Len(parentOwned) = 2
    /\ \A i \in 1..2 : parentOwned[i][2] # built[1].ParentOwnedRights[i][2]

====
